---- MODULE Spec2Model ----
(***************************************************************************)
(* Model of read-orders.py: a linear script that expands two hardcoded     *)
(* glob patterns against the working directory, filters the matches, and   *)
(* prints each accepted file's path and content.                           *)
(*                                                                         *)
(* Text is modelled as a sequence of tokens.  A path is a sequence of      *)
(* one-character tokens, because glob, fnmatch and the filter inspect its  *)
(* characters; a literal of the source or a message of the runtime is one  *)
(* token ("Found: ").  A character outside ASCII is written "U+xxxx".      *)
(***************************************************************************)
EXTENDS Naturals, Sequences, FiniteSets, TLC

VARIABLES
    fs,         \* the directory tree: file path (sequence of segments) -> node
    fs0,        \* history: the tree the first run started on
    scan,       \* which order os.scandir lists names in (a property of the tree)
    stdoutEnc,  \* the encoding of sys.stdout
    globRaises, \* index of the pattern whose expansion raises (0: none)
    pc,         \* the statement the script is at
    pi,         \* index of the current pattern (for pattern in patterns)
    files,      \* files = glob.glob(pattern)
    fi,         \* index of the current f in files (0 before the first)
    handles,    \* the files currently open
    content,    \* content = file.read()
    exc,        \* the exception being propagated or handled
    out,        \* standard output: one entry per print call
    run,        \* number of the run in progress
    prevOut     \* the output of the previous run

vars == <<fs, fs0, scan, stdoutEnc, globRaises, pc, pi, files, fi, handles,
          content, exc, out, run, prevOut>>

----------------------------------------------------------------------------
(* Bounds of the model. *)

MaxFiles == 2

----------------------------------------------------------------------------
(* Text helpers. *)

Slash == "/"

RECURSIVE Join(_)
Join(segs) ==
    IF segs = <<>> THEN <<>>
    ELSE IF Len(segs) = 1 THEN segs[1]
    ELSE segs[1] \o <<Slash>> \o Join(Tail(segs))

(* The segments of s between its slashes. *)
Split(s) ==
    LET positions == [i \in 1..(Len(s) + 2) |-> i - 1]
        isCut(i)  == i = 0 \/ i = Len(s) + 1 \/ s[i] = Slash
        cuts      == SelectSeq(positions, isCut)
    IN  [k \in 1..(Len(cuts) - 1) |-> SubSeq(s, cuts[k] + 1, cuts[k + 1] - 1)]

StartsWith(s, pre) ==
    Len(s) >= Len(pre) /\ SubSeq(s, 1, Len(pre)) = pre

EndsWith(s, suf) ==
    Len(s) >= Len(suf) /\ SubSeq(s, Len(s) - Len(suf) + 1, Len(s)) = suf

Contains(s, sub) ==
    \E i \in 0..Len(s) :
        i + Len(sub) <= Len(s) /\ SubSeq(s, i + 1, i + Len(sub)) = sub

Repeat(ch, n) == [i \in 1..n |-> ch]

----------------------------------------------------------------------------
(* The source's literals. *)

Pattern1 ==
    <<"s","r","c","/","a","p","p","/","[","l","o","c","a","l","e","]","/",
      "a","c","c","o","u","n","t","/","o","r","d","e","r","s","/",
      "[","i","d","]","/","p","a","g","e",".","t","s","x">>

Pattern2 ==
    <<"s","r","c","/","a","p","p","/","*","/",
      "a","c","c","o","u","n","t","/","o","r","d","e","r","s","/",
      "*","/","p","a","g","e",".","t","s","x">>

patternsSwapped == <<Pattern2, Pattern1>>

patterns == <<Pattern1, Pattern2>>

OrdersLit == <<"o","r","d","e","r","s">>
TsxLit == <<".","t","s","x">>

----------------------------------------------------------------------------
(* fnmatch: shell-style matching of one name against one pattern segment.  *)
(* Ranges (a-z) inside a class are not modelled: the source's patterns     *)
(* have none.                                                              *)

MagicChars == {"*", "?", "["}

HasMagic(seg) == \E i \in 1..Len(seg) : seg[i] \in MagicChars

IsHidden(name) == name # <<>> /\ name[1] = "."

(* Index of the "]" closing the class opened at pat[1], or 0 when none.    *)
RECURSIVE ScanClass(_, _)
ScanClass(pat, j) ==
    IF j > Len(pat) THEN 0
    ELSE IF pat[j] = "]" THEN j
    ELSE ScanClass(pat, j + 1)

ClassEnd(pat) ==
    LET j1 == IF Len(pat) >= 2 /\ pat[2] = "!" THEN 3 ELSE 2
        j2 == IF Len(pat) >= j1 /\ pat[j1] = "]" THEN j1 + 1 ELSE j1
    IN  ScanClass(pat, j2)

RECURSIVE Fnmatch(_, _)
Fnmatch(name, pat) ==
    IF pat = <<>> THEN name = <<>>
    ELSE IF pat[1] = "*" THEN
        \/ Fnmatch(name, Tail(pat))
        \/ name # <<>> /\ Fnmatch(Tail(name), pat)
    ELSE IF pat[1] = "?" THEN
        name # <<>> /\ Fnmatch(Tail(name), Tail(pat))
    ELSE IF pat[1] = "[" /\ ClassEnd(pat) # 0 THEN
        LET j       == ClassEnd(pat)
            stuff   == SubSeq(pat, 2, j - 1)
            negated == stuff[1] = "!"
            members == {stuff[k] : k \in (IF negated THEN 2 ELSE 1)..Len(stuff)}
        IN  /\ name # <<>>
            /\ (name[1] \in members) # negated
            /\ Fnmatch(Tail(name), SubSeq(pat, j + 1, Len(pat)))
    ELSE
        name # <<>> /\ name[1] = pat[1] /\ Fnmatch(Tail(name), Tail(pat))

(* A matcher that takes brackets as literal characters. *)
RECURSIVE FnmatchLiteralBrackets(_, _)
FnmatchLiteralBrackets(name, pat) ==
    IF pat = <<>> THEN name = <<>>
    ELSE IF pat[1] = "*" THEN
        \/ FnmatchLiteralBrackets(name, Tail(pat))
        \/ name # <<>> /\ FnmatchLiteralBrackets(Tail(name), pat)
    ELSE
        /\ name # <<>>
        /\ name[1] = pat[1]
        /\ FnmatchLiteralBrackets(Tail(name), Tail(pat))

MatchName(name, seg) == Fnmatch(name, seg)

----------------------------------------------------------------------------
(* The directory tree.  A tree maps the path of each file (a sequence of   *)
(* segments) to its node; the directories are the proper prefixes.         *)

IsPrefix(d, p) == Len(d) <= Len(p) /\ SubSeq(p, 1, Len(d)) = d

Lexists(tree, p) == \E q \in DOMAIN tree : IsPrefix(p, q)

IsDir(tree, p) == \E q \in DOMAIN tree : IsPrefix(p, q) /\ Len(q) > Len(p)

(* os.scandir: the names in a directory, in the order the tree lists them. *)
Listdir(tree, order, dir, dironly) ==
    LET below   == {q \in DOMAIN tree : Len(q) > Len(dir) /\ IsPrefix(dir, q)}
        entries == {q[Len(dir) + 1] : q \in below}
        subdirs == {q[Len(dir) + 1] : q \in {r \in below : Len(r) > Len(dir) + 1}}
        present(n) == n \in (IF dironly THEN subdirs ELSE entries)
    IN  SelectSeq(order, present)

----------------------------------------------------------------------------
(* glob.glob *)

Glob1(tree, order, dir, seg, dironly) ==
    LET names   == Listdir(tree, order, dir, dironly)
        visible(n) == IsHidden(seg) \/ ~IsHidden(n)
        hit(n)  == visible(n) /\ MatchName(n, seg)
    IN  SelectSeq(names, hit)

Glob0(tree, dir, seg, dironly) ==
    IF Lexists(tree, Append(dir, seg)) /\ (dironly => IsDir(tree, Append(dir, seg)))
    THEN <<seg>> ELSE <<>>

GlobInDir(tree, order, dir, seg, dironly) ==
    IF HasMagic(seg) THEN Glob1(tree, order, dir, seg, dironly)
    ELSE Glob0(tree, dir, seg, dironly)

RECURSIVE ExpandDirs(_, _, _, _, _)
ExpandDirs(tree, order, dirs, seg, dironly) ==
    IF dirs = <<>> THEN <<>>
    ELSE LET d     == Head(dirs)
             names == GlobInDir(tree, order, d, seg, dironly)
         IN  [k \in 1..Len(names) |-> Append(d, names[k])]
             \o ExpandDirs(tree, order, Tail(dirs), seg, dironly)

RECURSIVE Expand(_, _, _, _)
Expand(tree, order, dirs, segs) ==
    IF segs = <<>> THEN dirs
    ELSE Expand(tree, order,
                ExpandDirs(tree, order, dirs, Head(segs), Len(segs) > 1),
                Tail(segs))

(* Number of leading segments without magic: taken as a literal directory. *)
RECURSIVE LiteralPrefix(_)
LiteralPrefix(segs) ==
    IF segs = <<>> \/ HasMagic(Head(segs)) THEN 0
    ELSE 1 + LiteralPrefix(Tail(segs))

Glob(tree, order, pattern) ==
    LET segs == Split(pattern)
        n    == LiteralPrefix(segs)
    IN  IF ~HasMagic(pattern)
        THEN IF Lexists(tree, segs) THEN <<pattern>> ELSE <<>>
        ELSE LET found == Expand(tree, order, <<SubSeq(segs, 1, n)>>,
                                 SubSeq(segs, n + 1, Len(segs)))
             IN  [k \in 1..Len(found) |-> Join(found[k])]

(* A shell's expansion: a pattern without a match stands for itself. *)
GlobKeepUnmatched(tree, order, pattern) ==
    IF Glob(tree, order, pattern) = <<>> THEN <<pattern>>
    ELSE Glob(tree, order, pattern)

GlobGlob(tree, order, pattern) == Glob(tree, order, pattern)

----------------------------------------------------------------------------
(* The trees, nodes and environments the model ranges over. *)

SegSrc     == <<"s","r","c">>
SegApp     == <<"a","p","p">>
SegAccount == <<"a","c","c","o","u","n","t">>
SegOrders  == <<"o","r","d","e","r","s">>
SegOrder   == <<"o","r","d","e","r">>
SegPage    == <<"p","a","g","e",".","t","s","x">>
SegPageTs  == <<"p","a","g","e",".","t","s">>

NameE       == <<"e">>
NameEn      == <<"e","n">>
NameLocale  == <<"[","l","o","c","a","l","e","]">>
NameDotH    == <<".","h">>
NameUuml    == <<"U+00FC">>
NameL       == <<"l">>
NameD       == <<"d">>
NameI       == <<"i">>
Name42      == <<"4","2">>
NameId      == <<"[","i","d","]">>

PagePath(loc, id) ==
    <<SegSrc, SegApp, loc, SegAccount, SegOrders, id, SegPage>>

(* The page files a tree may hold: names inside and outside the bracket    *)
(* classes, the literal bracket names, a hidden and a non-ASCII name.      *)
PagePaths ==
    { PagePath(NameE, NameD),  PagePath(NameL, NameI),
      PagePath(NameE, Name42), PagePath(NameEn, Name42),
      PagePath(NameEn, NameD), PagePath(NameLocale, NameId),
      PagePath(NameUuml, NameD), PagePath(NameDotH, NameD) }

(* Files next to the pages that no pattern names. *)
OtherPaths ==
    { <<SegSrc, SegApp, NameE, SegAccount, SegOrder, NameD, SegPage>>,
      <<SegSrc, SegApp, NameE, SegAccount, SegOrders, NameD, SegPageTs>> }

AllPaths == PagePaths \cup OtherPaths

NameOrder ==
    <<NameE, NameL, NameEn, NameLocale, NameDotH, NameUuml,
      NameD, NameI, Name42, NameId,
      SegSrc, SegApp, SegAccount, SegOrders, SegOrder, SegPage, SegPageTs>>

Reverse(s) == [i \in 1..Len(s) |-> s[Len(s) + 1 - i]]

ScanOrders == <<NameOrder, Reverse(NameOrder)>>

TextX    == <<"X">>
TextY    == <<"U+00E9">>
BadBytes == <<"0xFF">>

NonAscii     == {"U+00E9", "U+00FC"}
InvalidBytes == {"0xFF"}

Nodes ==
    { [perm |-> TRUE,  data |-> TextX],
      [perm |-> TRUE,  data |-> TextY],
      [perm |-> TRUE,  data |-> BadBytes],
      [perm |-> FALSE, data |-> TextX] }

RECURSIVE SubsetsUpTo(_, _)
SubsetsUpTo(S, k) ==
    IF k = 0 THEN {{}}
    ELSE LET smaller == SubsetsUpTo(S, k - 1)
         IN  smaller \cup {T \cup {x} : T \in smaller, x \in S}

Trees == UNION {[S -> Nodes] : S \in SubsetsUpTo(AllPaths, MaxFiles)}

----------------------------------------------------------------------------
(* The runtime the script calls into. *)

Decodable(data) == \A i \in 1..Len(data) : data[i] \notin InvalidBytes

Encodable(enc, text) ==
    enc = "utf-8" \/ \A i \in 1..Len(text) : text[i] \notin NonAscii

NoExc == [at |-> "none", msg |-> <<>>]

PermissionError(f) ==
    <<"[Errno 13] Permission denied: '">> \o f \o <<"'">>
FileNotFoundError(f) ==
    <<"[Errno 2] No such file or directory: '">> \o f \o <<"'">>
UnicodeDecodeError == <<"'utf-8' codec can't decode byte">>
UnicodeEncodeError == <<"codec can't encode character">>
GlobError == <<"error raised by glob.glob">>

(* open(f, 'r'): reading mode leaves the tree as it is. *)
OpenTruncating(tree, p) ==
    IF p \in DOMAIN tree THEN [tree EXCEPT ![p].data = <<>>] ELSE tree

OpenForReading(tree, p) == tree

(* Leaving the with block closes the file it opened. *)
WithExitLeaking(hs) == hs

WithExit(hs) == SubSeq(hs, 1, Len(hs) - 1)

----------------------------------------------------------------------------
(* The script. *)

(* line 13 *)
AcceptTs(f) == Contains(f, OrdersLit) /\ EndsWith(f, <<".","t","s">>)

Accept(f) == Contains(f, OrdersLit) /\ EndsWith(f, TsxLit)

(* line 18 *)
SeparatorDashes == Repeat("-", 80)

Separator == Repeat("=", 80)

(* line 14, 21 *)
FoundLine(f) == <<"Found: ">> \o f

ErrorLine(f, e) == <<"Error reading ">> \o f \o <<": ">> \o e

FoundPaths(o) ==
    LET isFound(e) == e.stmt = 14
        lines == SelectSeq(o, isFound)
    IN  [k \in 1..Len(lines) |-> Tail(lines[k].text)]

(* lines 11-12: every match is a candidate, seen before or not. *)
CandidatesDeduplicated(matches, o) ==
    LET fresh(f) == \A k \in 1..Len(FoundPaths(o)) : FoundPaths(o)[k] # f
    IN  SelectSeq(matches, fresh)

Candidates(matches, o) == matches

(* lines 15-20: the statements the try block covers. *)
HandlerWithoutTry(at) == "aborted"

HandlerTryFromFound(at) ==
    IF at \in {"found", "open", "read", "sep", "content"}
    THEN "except" ELSE "aborted"

Handler(at) ==
    IF at \in {"open", "read", "sep", "content"} THEN "except" ELSE "aborted"

f == files[fi]

Entry(stmt, text) == [stmt |-> stmt, pat |-> pi, idx |-> fi, text |-> text]

Init0 ==
    /\ fs \in Trees
    /\ fs0 = fs
    /\ scan \in DOMAIN ScanOrders
    /\ pc = "glob"
    /\ pi = 1
    /\ files = <<>>
    /\ fi = 0
    /\ handles = <<>>
    /\ content = <<>>
    /\ exc = NoExc
    /\ out = <<>>
    /\ run = 1
    /\ prevOut = <<>>

(* The environment in which standard output takes every text and glob     *)
(* returns.                                                               *)
Init ==
    /\ Init0
    /\ stdoutEnc = "utf-8"
    /\ globRaises = 0

(* Environments in which a print or a glob call can raise. *)
InitFault ==
    /\ Init0
    /\ \/ stdoutEnc \in {"utf-8", "ascii"} /\ globRaises = 0
       \/ stdoutEnc = "utf-8" /\ globRaises \in DOMAIN patterns

env == <<fs0, scan, stdoutEnc, globRaises, run, prevOut>>

(* line 11 *)
GlobReturns == pc = "glob" /\ globRaises # pi

GlobStep ==
    /\ GlobReturns
    /\ files' = Candidates(GlobGlob(fs, ScanOrders[scan], patterns[pi]), out)
    /\ fi' = 0
    /\ pc' = "for"
    /\ UNCHANGED <<fs, env, pi, handles, content, exc, out>>

GlobRaise ==
    /\ pc = "glob"
    /\ globRaises = pi
    /\ exc' = [at |-> "glob", msg |-> GlobError]
    /\ pc' = Handler("glob")
    /\ UNCHANGED <<fs, env, pi, files, fi, handles, content, out>>

(* lines 12-13 *)
ForFile ==
    /\ pc = "for"
    /\ fi < Len(files)
    /\ fi' = fi + 1
    /\ pc' = IF Accept(files[fi + 1]) THEN "found" ELSE "for"
    /\ UNCHANGED <<fs, env, pi, files, handles, content, exc, out>>

(* line 10 *)
NextPattern ==
    /\ pc = "for"
    /\ fi = Len(files)
    /\ pi < Len(patterns)
    /\ pi' = pi + 1
    /\ pc' = "glob"
    /\ UNCHANGED <<fs, env, files, fi, handles, content, exc, out>>

Finish ==
    /\ pc = "for"
    /\ fi = Len(files)
    /\ pi = Len(patterns)
    /\ pc' = "done"
    /\ UNCHANGED <<fs, env, pi, files, fi, handles, content, exc, out>>

(* line 14 *)
PrintFound ==
    /\ pc = "found"
    /\ Encodable(stdoutEnc, FoundLine(f))
    /\ out' = Append(out, Entry(14, FoundLine(f)))
    /\ pc' = "open"
    /\ UNCHANGED <<fs, env, pi, files, fi, handles, content, exc>>

PrintFoundRaise ==
    /\ pc = "found"
    /\ ~Encodable(stdoutEnc, FoundLine(f))
    /\ exc' = [at |-> "found", msg |-> UnicodeEncodeError]
    /\ pc' = Handler("found")
    /\ UNCHANGED <<fs, env, pi, files, fi, handles, content, out>>

(* line 16 *)
Open ==
    /\ pc = "open"
    /\ LET p == Split(f) IN
       IF p \notin DOMAIN fs THEN
            /\ exc' = [at |-> "open", msg |-> FileNotFoundError(f)]
            /\ pc' = Handler("open")
            /\ UNCHANGED <<fs, handles>>
       ELSE IF ~fs[p].perm THEN
            /\ exc' = [at |-> "open", msg |-> PermissionError(f)]
            /\ pc' = Handler("open")
            /\ UNCHANGED <<fs, handles>>
       ELSE
            /\ fs' = OpenForReading(fs, p)
            /\ handles' = Append(handles, f)
            /\ pc' = "read"
            /\ UNCHANGED exc
    /\ UNCHANGED <<env, pi, files, fi, content, out>>

(* line 17 *)
Read ==
    /\ pc = "read"
    /\ LET data == fs[Split(f)].data IN
       IF Decodable(data) THEN
            /\ content' = data
            /\ pc' = "sep"
            /\ UNCHANGED <<handles, exc>>
       ELSE
            /\ handles' = WithExit(handles)
            /\ exc' = [at |-> "read", msg |-> UnicodeDecodeError]
            /\ pc' = Handler("read")
            /\ UNCHANGED content
    /\ UNCHANGED <<fs, env, pi, files, fi, out>>

(* line 18 *)
PrintSep ==
    /\ pc = "sep"
    /\ out' = Append(out, Entry(18, Separator))
    /\ pc' = "content"
    /\ UNCHANGED <<fs, env, pi, files, fi, handles, content, exc>>

(* line 19 *)
PrintContent ==
    /\ pc = "content"
    /\ Encodable(stdoutEnc, content)
    /\ out' = Append(out, Entry(19, content))
    /\ pc' = "close"
    /\ UNCHANGED <<fs, env, pi, files, fi, handles, content, exc>>

PrintContentRaise ==
    /\ pc = "content"
    /\ ~Encodable(stdoutEnc, content)
    /\ handles' = WithExit(handles)
    /\ exc' = [at |-> "content", msg |-> UnicodeEncodeError]
    /\ pc' = Handler("content")
    /\ UNCHANGED <<fs, env, pi, files, fi, content, out>>

(* line 16: the with block ends *)
Close ==
    /\ pc = "close"
    /\ handles' = WithExit(handles)
    /\ pc' = "for"
    /\ UNCHANGED <<fs, env, pi, files, fi, content, exc, out>>

(* lines 20-21 *)
Except ==
    /\ pc = "except"
    /\ out' = Append(out, Entry(21, ErrorLine(f, exc.msg)))
    /\ exc' = NoExc
    /\ pc' = "for"
    /\ UNCHANGED <<fs, env, pi, files, fi, handles, content>>

(* The script is started again on the tree the run left. *)
Restart ==
    /\ pc = "done"
    /\ run = 1
    /\ run' = 2
    /\ prevOut' = out
    /\ out' = <<>>
    /\ pc' = "glob"
    /\ pi' = 1
    /\ files' = <<>>
    /\ fi' = 0
    /\ content' = <<>>
    /\ UNCHANGED <<fs, fs0, scan, stdoutEnc, globRaises, handles, exc>>

Next ==
    \/ GlobStep \/ ForFile \/ NextPattern \/ Finish
    \/ PrintFound \/ Open \/ Read \/ PrintSep \/ PrintContent \/ Close
    \/ Except

NextFault == Next \/ GlobRaise \/ PrintFoundRaise \/ PrintContentRaise

NextTwice == Next \/ Restart

Spec == Init /\ [][Next]_vars

SpecFault == InitFault /\ [][NextFault]_vars

SpecTwice == Init /\ [][NextTwice]_vars

(* The interpreter runs the script's next statement as long as there is    *)
(* one.  Only the statements of a run without matches are assumed fair:    *)
(* the two for statements and the glob call.  GlobStep is enabled exactly  *)
(* when GlobReturns holds (the rest of it assigns), so its weak fairness   *)
(* is written with that guard.                                             *)
LoopControl == NextPattern \/ Finish

SpecLive ==
    /\ Init /\ [][Next]_vars
    /\ WF_vars(LoopControl)
    /\ ([]<>(~GlobReturns) \/ []<><<GlobStep>>_vars)

----------------------------------------------------------------------------
(* Vocabulary of the properties. *)

Order == ScanOrders[scan]

(* The matches of pattern number i that pass the filter, in glob's order.  *)
Accepted(pattern) == SelectSeq(Glob(fs, Order, pattern), Accept)

Count(seq, x) == Cardinality({k \in 1..Len(seq) : seq[k] = x})

Elems(seq) == {seq[k] : k \in 1..Len(seq)}

PathStrings == {Join(p) : p \in AllPaths}

HasFile(path) == \E p \in DOMAIN fs : Join(p) = path

NodeAt(path) == fs[CHOOSE p \in DOMAIN fs : Join(p) = path]

Readable(path) ==
    /\ HasFile(path)
    /\ NodeAt(path).perm
    /\ Decodable(NodeAt(path).data)

IsFoundEntry(e) == e.stmt = 14

PathOf(e) == Tail(e.text)

IsSeparator80(t) == Len(t) = 80 /\ \A k \in 1..Len(t) : t[k] = "="

ExamplePath ==
    <<"s","r","c","/","a","p","p","/","e","n","/",
      "a","c","c","o","u","n","t","/","o","r","d","e","r","s","/",
      "4","2","/","p","a","g","e",".","t","s","x">>

ExampleTree == [p \in {PagePath(NameEn, Name42)} |-> [perm |-> TRUE, data |-> TextX]]

Texts(o) == [k \in 1..Len(o) |-> o[k].text]

(* Entry a belongs to a candidate no later than entry b's. *)
NotAfter(a, b) == a.pat < b.pat \/ (a.pat = b.pat /\ a.idx <= b.idx)

----------------------------------------------------------------------------
(* C1: when a run has ended, each path occurs in "Found:" lines as often   *)
(* as it occurs in the two patterns' filtered glob matches taken together: *)
(* a file matched by both patterns has two "Found:" lines, a file matched  *)
(* by one has exactly one, and nothing else is printed as found.           *)
C1_FoundMultiset ==
    pc = "done" =>
        LET found  == FoundPaths(out)
            first  == Glob(fs, Order, Pattern1)
            second == Glob(fs, Order, Pattern2)
            kept   == SelectSeq(first, Accept) \o SelectSeq(second, Accept)
        IN  /\ \A s \in PathStrings \cup Elems(found) \cup Elems(kept) :
                  Count(found, s) = Count(kept, s)
            /\ \A s \in PathStrings :
                  Count(found, s)
                      = Cardinality({i \in {1, 2} : s \in Elems(<<first, second>>[i])})

C1_Witness ==
    /\ pc = "done"
    /\ \E s \in PathStrings : Count(FoundPaths(out), s) = 2
    /\ \E s \in PathStrings : Count(FoundPaths(out), s) = 1

C3_ErrorThenContinue ==
    /\ \A i \in 1..Len(out) :
          ( /\ IsFoundEntry(out[i])
            /\ ~Readable(PathOf(out[i]))
            /\ (i < Len(out) \/ pc \in {"for", "glob", "done"}) ) =>
              /\ i + 1 <= Len(out)
              /\ out[i + 1].stmt = 21
              /\ StartsWith(out[i + 1].text,
                            <<"Error reading ">> \o PathOf(out[i]) \o <<": ">>)
    /\ pc # "aborted"
    /\ pc = "done" =>
          \A i \in {1, 2} :
              LET matches == Glob(fs, Order, <<Pattern1, Pattern2>>[i])
              IN  \A k \in 1..Len(matches) :
                      \E j \in 1..Len(out) :
                          /\ IsFoundEntry(out[j])
                          /\ out[j].pat = i /\ out[j].idx = k
                          /\ PathOf(out[j]) = matches[k]

C3_Witness ==
    /\ pc = "done"
    /\ \E i \in 1..Len(out) :
          /\ out[i].stmt = 21
          /\ out[i].pat = 1
          /\ \E j \in (i + 1)..Len(out) : IsFoundEntry(out[j]) /\ out[j].pat = 1
          /\ \E j \in (i + 1)..Len(out) : IsFoundEntry(out[j]) /\ out[j].pat = 2

(* C4: a run started on a tree in which neither pattern has a match        *)
(* reaches its normal end, and has printed nothing when it does.           *)
NoMatch == Glob(fs, Order, Pattern1) = <<>> /\ Glob(fs, Order, Pattern2) = <<>>

C4_NoMatchNoOutput ==
    (pc = "glob" /\ pi = 1 /\ NoMatch) => <>(pc = "done" /\ out = <<>>)

C4_Witness ==
    /\ pc = "done"
    /\ DOMAIN fs # {}
    /\ NoMatch

(* C5: a run leaves the tree as it found it, and a second run on it ends   *)
(* with the same output as the first.                                      *)
C5_SameOutputTreeUnchanged ==
    /\ fs = fs0
    /\ (run = 2 /\ pc = "done") => Texts(out) = Texts(prevOut)

C5_Witness ==
    /\ run = 2
    /\ pc = "done"
    /\ Len(out) >= 5
    /\ \E i \in 1..Len(out) : out[i].stmt = 21

(* C6: an exception raised by glob or by printing the "Found:" line is     *)
(* never handled: the run is aborted, nothing more happens, and nothing of *)
(* the failing candidate, of a later candidate or of a later pattern is    *)
(* printed; the handler is entered only for an exception raised from       *)
(* opening the file up to printing its content.                            *)
C6_UncaughtOutsideTry ==
    /\ [][pc # "aborted"]_vars
    /\ [](exc.at \in {"glob", "found"} => pc = "aborted")
    /\ [](pc = "except" => exc.at \in {"open", "read", "sep", "content"})
    /\ [](\A i \in 1..Len(out) :
            out[i].stmt = 21 =>
                /\ i > 1
                /\ out[i - 1].stmt \in {14, 18}
                /\ out[i - 1].pat = out[i].pat /\ out[i - 1].idx = out[i].idx)
    /\ [](pc = "aborted" =>
            /\ exc.at \in {"glob", "found"}
            /\ exc.at = "glob" => \A i \in 1..Len(out) : out[i].pat < pi
            /\ exc.at = "found" =>
                  \A i \in 1..Len(out) :
                      out[i].pat < pi \/ (out[i].pat = pi /\ out[i].idx < fi))

C6_Witness ==
    /\ pc = "aborted"
    /\ exc.at = "found"
    /\ out # <<>>
    /\ fi < Len(files)

(* C7: the outputs appear candidate by candidate, in the order of the      *)
(* patterns: no output of a candidate follows an output of a later one,    *)
(* the second pattern is expanded only after every match of the first has  *)
(* been printed, and the "Found:" paths of a finished run are the first    *)
(* pattern's matches followed by the second's.                             *)
C7_PatternOrder ==
    /\ \A i \in 1..Len(out) : \A j \in i..Len(out) : NotAfter(out[i], out[j])
    /\ pc \in {"glob", "done"} =>
          LET found  == FoundPaths(out)
              first  == Accepted(Pattern1)
              second == Accepted(Pattern2)
          IN  /\ (pc = "glob" /\ pi = 1) => found = <<>>
              /\ (pc = "glob" /\ pi = 2) => found = first
              /\ pc = "done" => found = first \o second

C7_Witness ==
    /\ pc = "done"
    /\ LET first  == Accepted(Pattern1)
           second == Accepted(Pattern2)
       IN  /\ Len(first) >= 1
           /\ Len(second) >= 2
           /\ first \o second # second \o first

(* C8: at most one file is open at any time, it is the current candidate's *)
(* and it is open only from the open call to the end of the with block: no *)
(* file is open when the next candidate is taken, in the handler, or when  *)
(* the run has ended or aborted.                                           *)
C8_OneFileOpen ==
    /\ Len(handles) <= 1
    /\ pc \in {"read", "sep", "content", "close"} => handles = <<f>>
    /\ pc \notin {"read", "sep", "content", "close"} => handles = <<>>

C8_Witness ==
    /\ pc = "except"
    /\ exc.at = "content"
    /\ handles = <<>>

(* C9: the first pattern matches exactly the files                         *)
(* src/app/<c>/account/orders/<d>/page.tsx with <c> one of l,o,c,a,e and   *)
(* <d> one of i,d; each of them is also a match of the second pattern and  *)
(* has two "Found:" lines in a finished run; the file under directories    *)
(* named "[locale]" and "[id]" is a match of the second pattern only and   *)
(* has one.                                                                *)
C9_BracketsAreClasses ==
    pc = "done" =>
        LET first   == Elems(Glob(fs, Order, Pattern1))
            second  == Elems(Glob(fs, Order, Pattern2))
            shaped  == {Join(PagePath(<<c>>, <<d>>)) :
                            c \in {"l", "o", "c", "a", "e"}, d \in {"i", "d"}}
            literal == Join(PagePath(NameLocale, NameId))
            found   == FoundPaths(out)
        IN  /\ first = {Join(p) : p \in DOMAIN fs} \cap shaped
            /\ first \subseteq second
            /\ PagePath(NameLocale, NameId) \in DOMAIN fs =>
                  literal \notin first /\ literal \in second
            /\ \A s \in first : Count(found, s) = 2
            /\ PagePath(NameLocale, NameId) \in DOMAIN fs =>
                  Count(found, literal) = 1

C9_Witness ==
    /\ pc = "done"
    /\ PagePath(NameLocale, NameId) \in DOMAIN fs
    /\ PagePath(NameL, NameI) \in DOMAIN fs
    /\ Len(FoundPaths(out)) = 3

(* C10: every path either pattern expands to passes the filter, so a       *)
(* finished run has as many "Found:" lines as the two patterns have        *)
(* matches.                                                                *)
C10_FilterNeverRejects ==
    pc = "done" =>
        LET first  == Glob(fs, Order, Pattern1)
            second == Glob(fs, Order, Pattern2)
        IN  /\ \A k \in 1..Len(first) : Accept(first[k])
            /\ \A k \in 1..Len(second) : Accept(second[k])
            /\ Len(SelectSeq(out, IsFoundEntry)) = Len(first) + Len(second)

C10_Witness ==
    /\ pc = "done"
    /\ Len(SelectSeq(out, IsFoundEntry)) >= 3

====
